---- MODULE Spec2Model ----
(***************************************************************************)
(* Model of runPlugins (cmd/protolock/plugins.go): the concurrent plugin   *)
(* execution and aggregation engine.  One main goroutine (the Aggregator), *)
(* one Collector goroutine and one goroutine per plugin-list entry, which  *)
(* talk over three unbuffered channels and a sync.WaitGroup.               *)
(*                                                                         *)
(* Strings are sequences of one-character strings where the code looks     *)
(* inside them (the plugin list, plugin names) and sequences of tokens     *)
(* where it only copies, scans or parses them (payload, plugin output,     *)
(* error text).                                                            *)
(***************************************************************************)
EXTENDS Naturals, Sequences, FiniteSets, Bags, TLC

\* ------------------------------------------------------------- bounds
MaxListLen == 3          \* characters in the plugin list argument
MaxEntryWarnings == 1    \* warnings already in the Report at call entry
MaxBatch == 2            \* warnings one plugin can emit
ReadChunk == 8           \* tokens one read of a plugin's stdin can take

\* ------------------------------------------------------------- inputs
Alphabet == {"a", "b", " ", ","}
Executables == {<<"a">>, <<"b">>}
EntryPool == <<"w1", "w0", "w9">>
PluginPool == <<"w2", "w3", "w4", "w5">>

SeqsUpTo(S, n) == UNION {[1..k -> S] : k \in 0..n}

PluginLists == SeqsUpTo(Alphabet, MaxListLen)
EntryWarnings == {SubSeq(EntryPool, 1, n) : n \in 0..MaxEntryWarnings}
Batches == {SubSeq(PluginPool, 1, n) : n \in 0..MaxBatch}

\* ------------------------------------------------------------- strings
Sep == ","
ProtoSep == ":/:"
FileSep == "/"

FirstIndex(s, c) == CHOOSE k \in 1..Len(s) : s[k] = c /\ \A j \in 1..(k - 1) : s[j] # c

RECURSIVE Split(_)
Split(s) ==
    IF \A k \in 1..Len(s) : s[k] # Sep
    THEN <<s>>
    ELSE LET k == FirstIndex(s, Sep)
         IN <<SubSeq(s, 1, k - 1)>> \o Split(SubSeq(s, k + 1, Len(s)))

RECURSIVE TrimSpace(_)
TrimSpace(s) ==
    IF s = <<>> THEN s
    ELSE IF s[1] = " " THEN TrimSpace(Tail(s))
    ELSE IF s[Len(s)] = " " THEN TrimSpace(SubSeq(s, 1, Len(s) - 1))
    ELSE s

ReplaceAll(s, old, new) == [k \in 1..Len(s) |-> IF s[k] = old THEN new ELSE s[k]]

RECURSIVE Join(_, _)
Join(lines, sep) ==
    IF lines = <<>> THEN <<>>
    ELSE IF Len(lines) = 1 THEN lines[1]
    ELSE lines[1] \o <<sep>> \o Join(Tail(lines), sep)

\* ------------------------------------------------------------- errors
NilErr == [isNil |-> TRUE, text |-> <<>>]
Errorf(text) == [isNil |-> FALSE, text |-> text]

wrapPluginErr(name, path, err, output) ==
    Errorf(name \o <<" (">> \o path \o <<"): ">> \o err.text \o <<"\n">>
           \o ReplaceAll(output, ProtoSep, FileSep))

AccumulatedHeader == <<"[protolock:plugin] accumulated plugin errors:", "\n">>

CombinedError(errs) ==
    Errorf(AccumulatedHeader \o Join([k \in 1..Len(errs) |-> errs[k].text], "\n"))

\* ------------------------------------------------------------- wire format
NilSlice == [isNil |-> TRUE, items |-> <<>>]
Slice(items) == [isNil |-> FALSE, items |-> items]

Data(current, updated, protolockWarnings, pluginWarnings, msg) ==
    [Current |-> current, Updated |-> updated,
     ProtolockWarnings |-> protolockWarnings,
     PluginWarnings |-> pluginWarnings, PluginErrorMessage |-> msg]

EncodeSlice(key, s) ==
    IF s.isNil THEN <<key, "null">> ELSE <<key, "[">> \o s.items \o <<"]">>

Encode(d) ==
    <<"{", "Current", d.Current, "Updated", d.Updated>>
    \o EncodeSlice("ProtolockWarnings", d.ProtolockWarnings)
    \o EncodeSlice("PluginWarnings", d.PluginWarnings)
    \o (IF d.PluginErrorMessage = "" THEN <<>>
        ELSE <<"PluginErrorMessage", d.PluginErrorMessage>>)
    \o <<"}">>

\* What a plugin can print: the fields a plugin is asked to fill, or text that
\* is no payload at all.
PluginPrint(pw, msg) ==
    <<"{">>
    \o (IF pw.isNil THEN <<>> ELSE EncodeSlice("PluginWarnings", pw))
    \o (IF msg = "" THEN <<>> ELSE <<"PluginErrorMessage", msg>>)
    \o <<"}">>

WellFormedOutputs ==
    {PluginPrint(pw, msg) : pw \in {NilSlice} \cup {Slice(b) : b \in Batches},
                            msg \in {"", "boom"}}
MalformedOutputs == {<<"panic", ProtoSep, "x.proto">>}

DecodeErr == [ok |-> FALSE, PluginWarnings |-> NilSlice, PluginErrorMessage |-> ""]

\* json.Unmarshal(output, pluginData) for the two fields the code reads.
ParseMsg(rest, pw) ==
    IF rest = <<>> THEN [ok |-> TRUE, PluginWarnings |-> pw, PluginErrorMessage |-> ""]
    ELSE IF Len(rest) = 2 /\ rest[1] = "PluginErrorMessage"
    THEN [ok |-> TRUE, PluginWarnings |-> pw, PluginErrorMessage |-> rest[2]]
    ELSE DecodeErr

ParseFields(body) ==
    IF body # <<>> /\ body[1] = "PluginWarnings"
    THEN IF Len(body) >= 2 /\ body[2] = "null"
         THEN ParseMsg(SubSeq(body, 3, Len(body)), NilSlice)
         ELSE IF Len(body) >= 3 /\ body[2] = "[" /\ \E k \in 3..Len(body) : body[k] = "]"
         THEN LET k == FirstIndex(body, "]")
              IN ParseMsg(SubSeq(body, k + 1, Len(body)), Slice(SubSeq(body, 3, k - 1)))
         ELSE DecodeErr
    ELSE ParseMsg(body, NilSlice)

Unmarshal(output) ==
    IF Len(output) >= 2 /\ output[1] = "{" /\ output[Len(output)] = "}"
    THEN ParseFields(SubSeq(output, 2, Len(output) - 1))
    ELSE DecodeErr

\* ------------------------------------------------------------- state
VARIABLES
    pluginList,        \* the pluginList argument
    installed,         \* names exec.LookPath resolves in this environment
    entry,             \* the Report as it was at call entry
    report,            \* the caller's Report, shared by reference
    inputData,         \* bytes of the encoded payload
    plugins,           \* strings.Split(pluginList, ",")
    wg,                \* the WaitGroup counter
    readers,           \* offset of every bytes.Reader made so far
    tasks,             \* the plugin goroutines started so far
    mainPc,            \* where runPlugins is
    collPc,            \* where the collector goroutine is
    collErr,           \* the collector's local err
    collBatch,         \* the collector's local warnings
    collIdx,           \* index of the collector's range loop
    allPluginErrors,   \* the failure accumulator
    ret,               \* what runPlugins returned
    sentLog            \* history: every message delivered, in order

vars == <<pluginList, installed, entry, report, inputData, plugins, wg, readers,
          tasks, mainPc, collPc, collErr, collBatch, collIdx, allPluginErrors,
          ret, sentLog>>

envVars == <<pluginList, installed, entry>>
collLocals == <<collErr, collBatch, collIdx>>

\* ------------------------------------------------------------- helpers
Min(a, b) == IF a < b THEN a ELSE b

WarningsMsg(ws) == [kind |-> "warnings", warnings |-> ws, err |-> NilErr]
ErrMsg(e) == [kind |-> "err", warnings |-> <<>>, err |-> e]

ExitErr == Errorf(<<"exit status 1">>)

ProcessOutcomes ==
    {[err |-> NilErr, out |-> o] : o \in WellFormedOutputs \cup MalformedOutputs}
    \cup {[err |-> ExitErr, out |-> o] :
            o \in MalformedOutputs \cup {PluginPrint(Slice(SubSeq(PluginPool, 1, 1)), "")}}

LookPath(name) ==
    IF name \in installed
    THEN [path |-> <<"/bin/">> \o name, err |-> NilErr]
    ELSE [path |-> <<>>, err |-> Errorf(<<"executable file not found in $PATH">>)]

RECURSIVE Dedup(_)
Dedup(s) ==
    IF s = <<>> THEN s
    ELSE LET front == Dedup(SubSeq(s, 1, Len(s) - 1))
             last == s[Len(s)]
         IN IF \E k \in 1..Len(front) : front[k] = last THEN front
            ELSE Append(front, last)

\* plugins := strings.Split(pluginList, ",")
PluginEntriesDedup(list) == Dedup(Split(list))
PluginEntries(list) == Split(list)

\* pluginInputData := bytes.NewReader(inputData.Bytes()): the reader task k is given.
ReaderForShared(k) == 1
ReaderFor(k) == k

\* defer wg.Done()
WgDoneMissing(n) == n
WgDone(n) == n - 1

\* wg.Wait() returns
WaitNoBarrier(n) == TRUE
WaitReleased(n) == n = 0

\* The messages a task sends once exec.LookPath failed: none.
LookPathFailReports(name, err) == <<ErrMsg(wrapPluginErr(name, name, err, <<>>))>>
LookPathFailSends(name, err) == <<>>

\* The messages a task sends, in order, once CombinedOutput returned (err, output).
SendsDecodeFatal(name, path, err, output) ==
    IF ~err.isNil THEN <<ErrMsg(wrapPluginErr(name, path, err, output))>>
    ELSE LET pluginData == Unmarshal(output)
         IN IF ~pluginData.ok
            THEN <<ErrMsg(wrapPluginErr(name, path, Errorf(<<"decode error">>), output))>>
            ELSE (IF ~pluginData.PluginWarnings.isNil
                  THEN <<WarningsMsg(pluginData.PluginWarnings.items)>> ELSE <<>>)
                 \o (IF pluginData.PluginErrorMessage # ""
                     THEN <<ErrMsg(wrapPluginErr(name, path,
                              Errorf(<<pluginData.PluginErrorMessage>>), output))>>
                     ELSE <<>>)
SendsDecodeOnFailure(name, path, err, output) ==
    LET pluginData == Unmarshal(output)
    IN (IF pluginData.ok /\ ~pluginData.PluginWarnings.isNil
        THEN <<WarningsMsg(pluginData.PluginWarnings.items)>> ELSE <<>>)
       \o (IF ~err.isNil THEN <<ErrMsg(wrapPluginErr(name, path, err, output))>>
           ELSE IF pluginData.ok /\ pluginData.PluginErrorMessage # ""
           THEN <<ErrMsg(wrapPluginErr(name, path,
                    Errorf(<<pluginData.PluginErrorMessage>>), output))>>
           ELSE <<>>)
SendsNoNilCheck(name, path, err, output) ==
    IF ~err.isNil THEN <<ErrMsg(wrapPluginErr(name, path, err, output))>>
    ELSE LET pluginData == Unmarshal(output)
         IN IF ~pluginData.ok THEN <<>>
            ELSE <<WarningsMsg(pluginData.PluginWarnings.items)>>
                 \o (IF pluginData.PluginErrorMessage # ""
                     THEN <<ErrMsg(wrapPluginErr(name, path,
                              Errorf(<<pluginData.PluginErrorMessage>>), output))>>
                     ELSE <<>>)
SendsErrFirst(name, path, err, output) ==
    IF ~err.isNil THEN <<ErrMsg(wrapPluginErr(name, path, err, output))>>
    ELSE LET pluginData == Unmarshal(output)
         IN IF ~pluginData.ok THEN <<>>
            ELSE (IF pluginData.PluginErrorMessage # ""
                  THEN <<ErrMsg(wrapPluginErr(name, path,
                           Errorf(<<pluginData.PluginErrorMessage>>), output))>>
                  ELSE <<>>)
                 \o (IF ~pluginData.PluginWarnings.isNil
                     THEN <<WarningsMsg(pluginData.PluginWarnings.items)>> ELSE <<>>)
Sends(name, path, err, output) ==
    IF ~err.isNil THEN <<ErrMsg(wrapPluginErr(name, path, err, output))>>
    ELSE LET pluginData == Unmarshal(output)
         IN IF ~pluginData.ok THEN <<>>
            ELSE (IF ~pluginData.PluginWarnings.isNil
                  THEN <<WarningsMsg(pluginData.PluginWarnings.items)>> ELSE <<>>)
                 \o (IF pluginData.PluginErrorMessage # ""
                     THEN <<ErrMsg(wrapPluginErr(name, path,
                              Errorf(<<pluginData.PluginErrorMessage>>), output))>>
                     ELSE <<>>)

\* report.Warnings = append(report.Warnings, warning)
AppendWarningOverwrite(ws, warning) == <<warning>>
AppendWarningFront(ws, warning) == <<warning>> \o ws
AppendWarning(ws, warning) == Append(ws, warning)

\* if err != nil { allPluginErrors = append(allPluginErrors, err) }
AppendErrKeepLast(errs, err) == IF err.isNil THEN errs ELSE <<err>>
AppendErr(errs, err) == IF err.isNil THEN errs ELSE Append(errs, err)

\* The return statements after the stop signal.
DecideAlwaysReport(errs) ==
    [hasReport |-> TRUE, err |-> IF errs # <<>> THEN CombinedError(errs) ELSE NilErr]
Decide(errs) ==
    IF errs # <<>>
    THEN [hasReport |-> FALSE, err |-> CombinedError(errs)]
    ELSE [hasReport |-> TRUE, err |-> NilErr]

NewTask(name, reader) ==
    [pc |-> "start", name |-> name, path |-> <<>>, lookErr |-> FALSE,
     reader |-> reader, stdin |-> <<>>, exited |-> FALSE,
     err |-> NilErr, out |-> <<>>, pending |-> <<>>]

\* A task goes on to its next send, or returns (the deferred wg.Done runs).
BlockedSkipsSend(t) == [t EXCEPT !.pc = "done", !.pending = <<>>]
Blocked(t) == [t EXCEPT !.pc = IF t.pending = <<>> THEN "done" ELSE "send"]

\* ------------------------------------------------------------- initial state
Init ==
    /\ pluginList \in PluginLists
    /\ installed \in SUBSET Executables
    /\ entry \in {[Current |-> "cur", Updated |-> "upd", Warnings |-> w] :
                    w \in EntryWarnings}
    /\ report = entry
    /\ inputData = <<>>
    /\ plugins = <<>>
    /\ wg = 0
    /\ readers = <<>>
    /\ tasks = <<>>
    /\ mainPc = "encode"
    /\ collPc = "notStarted"
    /\ collErr = NilErr
    /\ collBatch = <<>>
    /\ collIdx = 0
    /\ allPluginErrors = <<>>
    /\ ret = [hasReport |-> FALSE, err |-> NilErr]
    /\ sentLog = <<>>

\* ------------------------------------------------------------- runPlugins
\* json.NewEncoder(inputData).Encode(&extend.Data{...}) succeeds.
EncodeOk ==
    /\ mainPc = "encode"
    /\ inputData' = Encode(Data(report.Current, report.Updated,
                               Slice(report.Warnings), Slice(<<>>), ""))
    /\ mainPc' = "spawn"
    /\ UNCHANGED <<envVars, report, plugins, wg, readers, tasks, collPc, collLocals,
                   allPluginErrors, ret, sentLog>>

EncodeErr == Errorf(<<"json: unsupported value">>)

\* The encoder reports an error: return nil, err.
EncodeFailFallsThrough ==
    /\ mainPc = "encode"
    /\ ret' = [hasReport |-> FALSE, err |-> EncodeErr]
    /\ mainPc' = "spawn"
    /\ UNCHANGED <<envVars, report, inputData, plugins, wg, readers, tasks, collPc,
                   collLocals, allPluginErrors, sentLog>>
EncodeFail ==
    /\ mainPc = "encode"
    /\ ret' = [hasReport |-> FALSE, err |-> EncodeErr]
    /\ mainPc' = "returned"
    /\ UNCHANGED <<envVars, report, inputData, plugins, wg, readers, tasks, collPc,
                   collLocals, allPluginErrors, sentLog>>

\* The channels are made, the collector goroutine is started, the list is split.
StartCollector ==
    /\ mainPc = "spawn"
    /\ collPc' = "select"
    /\ plugins' = PluginEntries(pluginList)
    /\ mainPc' = "dispatch"
    /\ UNCHANGED <<envVars, report, inputData, wg, readers, tasks, collLocals,
                   allPluginErrors, ret, sentLog>>

\* One iteration of the loop over plugins: wg.Add(1), a new reader, go func(name).
Dispatch ==
    /\ mainPc = "dispatch"
    /\ LET k == Len(tasks) + 1
       IN /\ wg' = wg + 1
          /\ readers' = Append(readers, 0)
          /\ tasks' = Append(tasks, NewTask(plugins[k], ReaderFor(k)))
          /\ mainPc' = IF k = Len(plugins) THEN "wait" ELSE "dispatch"
    /\ UNCHANGED <<envVars, report, inputData, plugins, collPc, collLocals,
                   allPluginErrors, ret, sentLog>>

\* wg.Wait() returns.
Wait ==
    /\ mainPc = "wait"
    /\ WaitReleased(wg)
    /\ mainPc' = "stop"
    /\ UNCHANGED <<envVars, report, inputData, plugins, wg, readers, tasks, collPc,
                   collLocals, allPluginErrors, ret, sentLog>>

\* pluginsDone <- struct{}{} meets the collector's case <-pluginsDone.
StopWithoutRendezvous ==
    /\ mainPc = "stop"
    /\ mainPc' = "decide"
    /\ UNCHANGED <<envVars, report, inputData, plugins, wg, readers, tasks, collPc,
                   collLocals, allPluginErrors, ret, sentLog>>
Stop ==
    /\ mainPc = "stop"
    /\ collPc = "select"
    /\ collPc' = "stopped"
    /\ mainPc' = "decide"
    /\ UNCHANGED <<envVars, report, inputData, plugins, wg, readers, tasks,
                   collLocals, allPluginErrors, ret, sentLog>>

\* if allPluginErrors != nil { return nil, fmt.Errorf(...) }; return report, nil
Return ==
    /\ mainPc = "decide"
    /\ ret' = Decide(allPluginErrors)
    /\ mainPc' = "returned"
    /\ UNCHANGED <<envVars, report, inputData, plugins, wg, readers, tasks, collPc,
                   collLocals, allPluginErrors, sentLog>>

\* ------------------------------------------------------------- plugin goroutine
\* name = strings.TrimSpace(name); path, err := exec.LookPath(name)
Resolve(i) ==
    /\ tasks[i].pc = "start"
    /\ LET name == TrimSpace(tasks[i].name)
           r == LookPath(name)
           t == IF r.err.isNil
                THEN [tasks[i] EXCEPT !.name = name, !.path = r.path, !.pc = "running"]
                ELSE Blocked([tasks[i] EXCEPT !.name = name, !.lookErr = TRUE,
                                !.pending = LookPathFailSends(name, r.err)])
       IN /\ tasks' = [tasks EXCEPT ![i] = t]
          /\ wg' = IF t.pc = "done" THEN WgDone(wg) ELSE wg
    /\ UNCHANGED <<envVars, report, inputData, plugins, readers, mainPc, collPc,
                   collLocals, allPluginErrors, ret, sentLog>>

\* The plugin process takes the next chunk of its standard input.
PluginRead(i) ==
    /\ tasks[i].pc = "running"
    /\ LET r == tasks[i].reader
           off == readers[r]
           n == Min(ReadChunk, Len(inputData) - off)
       IN /\ off < Len(inputData)
          /\ readers' = [readers EXCEPT ![r] = off + n]
          /\ tasks' = [tasks EXCEPT ![i].stdin =
                          @ \o SubSeq(inputData, off + 1, off + n)]
    /\ UNCHANGED <<envVars, report, inputData, plugins, wg, mainPc, collPc,
                   collLocals, allPluginErrors, ret, sentLog>>

\* plugin.CombinedOutput() returns; the goroutine runs on to its first send or
\* to its return.  The process is gone and nothing refers to its reader any
\* more: what it had read and the reader's offset are dropped from the state.
PluginExitWritesReport(i) ==
    /\ tasks[i].pc = "running"
    /\ \E oc \in ProcessOutcomes :
         LET msgs == Sends(tasks[i].name, tasks[i].path, oc.err, oc.out)
             t == Blocked([tasks[i] EXCEPT !.exited = TRUE, !.err = oc.err,
                             !.out = oc.out, !.stdin = <<>>,
                             !.pending = SelectSeq(msgs, LAMBDA m : m.kind = "err")])
         IN /\ tasks' = [tasks EXCEPT ![i] = t]
            /\ wg' = IF t.pc = "done" THEN WgDone(wg) ELSE wg
            /\ report' = [report EXCEPT !.Warnings =
                             IF msgs # <<>> /\ msgs[1].kind = "warnings"
                             THEN @ \o msgs[1].warnings ELSE @]
    /\ readers' = [readers EXCEPT ![tasks[i].reader] = 0]
    /\ UNCHANGED <<envVars, inputData, plugins, mainPc, collPc,
                   collLocals, allPluginErrors, ret, sentLog>>
PluginExit(i) ==
    /\ tasks[i].pc = "running"
    /\ \E oc \in ProcessOutcomes :
         LET t == Blocked([tasks[i] EXCEPT !.exited = TRUE, !.err = oc.err,
                             !.out = oc.out, !.stdin = <<>>,
                             !.pending = Sends(tasks[i].name, tasks[i].path,
                                               oc.err, oc.out)])
         IN /\ tasks' = [tasks EXCEPT ![i] = t]
            /\ wg' = IF t.pc = "done" THEN WgDone(wg) ELSE wg
    /\ readers' = [readers EXCEPT ![tasks[i].reader] = 0]
    /\ UNCHANGED <<envVars, report, inputData, plugins, mainPc, collPc,
                   collLocals, allPluginErrors, ret, sentLog>>

\* The plugin process never exits: CombinedOutput never returns.
PluginHang(i) ==
    /\ tasks[i].pc = "running"
    /\ tasks' = [tasks EXCEPT ![i].pc = "hung"]
    /\ UNCHANGED <<envVars, report, inputData, plugins, wg, readers, mainPc, collPc,
                   collLocals, allPluginErrors, ret, sentLog>>

\* ------------------------------------------------------------- collector
\* Task i's send meets the collector's receive; the task runs on to its next
\* send or to its return.
Deliver(i) ==
    /\ collPc = "select"
    /\ tasks[i].pc = "send"
    /\ LET m == Head(tasks[i].pending)
           t == Blocked([tasks[i] EXCEPT !.pending = Tail(@)])
       IN /\ tasks' = [tasks EXCEPT ![i] = t]
          /\ wg' = IF t.pc = "done" THEN WgDone(wg) ELSE wg
          /\ sentLog' = Append(sentLog, [from |-> i, msg |-> m])
          /\ IF m.kind = "err"
             THEN /\ collErr' = m.err
                  /\ collPc' = "appendErr"
                  /\ UNCHANGED <<collBatch, collIdx>>
             ELSE /\ collBatch' = m.warnings
                  /\ collIdx' = 1
                  /\ collPc' = "appendWarnings"
                  /\ UNCHANGED collErr

RecvErr(i) ==
    /\ tasks[i].pc = "send" /\ Head(tasks[i].pending).kind = "err"
    /\ Deliver(i)
    /\ UNCHANGED <<envVars, report, inputData, plugins, readers, mainPc,
                   allPluginErrors, ret>>

RecvWarnings(i) ==
    /\ tasks[i].pc = "send" /\ Head(tasks[i].pending).kind = "warnings"
    /\ Deliver(i)
    /\ UNCHANGED <<envVars, report, inputData, plugins, readers, mainPc,
                   allPluginErrors, ret>>

\* if err != nil { allPluginErrors = append(allPluginErrors, err) }
CollectErr ==
    /\ collPc = "appendErr"
    /\ allPluginErrors' = AppendErr(allPluginErrors, collErr)
    /\ collErr' = NilErr
    /\ collPc' = "select"
    /\ UNCHANGED <<envVars, report, inputData, plugins, wg, readers, tasks, mainPc,
                   collBatch, collIdx, ret, sentLog>>

\* One iteration of for _, warning := range warnings.
CollectWarning ==
    /\ collPc = "appendWarnings"
    /\ collIdx <= Len(collBatch)
    /\ report' = [report EXCEPT !.Warnings = AppendWarning(@, collBatch[collIdx])]
    /\ collIdx' = collIdx + 1
    /\ UNCHANGED <<envVars, inputData, plugins, wg, readers, tasks, mainPc, collPc,
                   collErr, collBatch, allPluginErrors, ret, sentLog>>

\* The range loop is over: back to the select.
CollectDone ==
    /\ collPc = "appendWarnings"
    /\ collIdx > Len(collBatch)
    /\ collPc' = "select"
    /\ collBatch' = <<>>
    /\ collIdx' = 0
    /\ UNCHANGED <<envVars, report, inputData, plugins, wg, readers, tasks, mainPc,
                   collErr, allPluginErrors, ret, sentLog>>

\* ------------------------------------------------------------- specification
Next ==
    \/ EncodeOk
    \/ EncodeFail
    \/ StartCollector
    \/ Dispatch
    \/ Wait
    \/ Stop
    \/ Return
    \/ \E i \in 1..Len(tasks) : Resolve(i)
    \/ \E i \in 1..Len(tasks) : PluginRead(i)
    \/ \E i \in 1..Len(tasks) : PluginExit(i)
    \/ \E i \in 1..Len(tasks) : PluginHang(i)
    \/ \E i \in 1..Len(tasks) : RecvErr(i)
    \/ \E i \in 1..Len(tasks) : RecvWarnings(i)
    \/ CollectErr
    \/ CollectWarning
    \/ CollectDone

Spec == Init /\ [][Next]_vars

\* The Go scheduler runs a goroutine that can run.
FairSpec == Spec /\ WF_vars(Next)

\* ------------------------------------------------------------- vocabulary
\* The terminal classification of an invocation, read off what LookPath and
\* CombinedOutput gave it.
ResolutionFailed(t) == t.lookErr
ProcessFailed(t) == t.exited /\ ~t.err.isNil
Exited0(t) == t.exited /\ t.err.isNil
DecodeFailed(t) == Exited0(t) /\ ~Unmarshal(t.out).ok
Decoded(t) == Exited0(t) /\ Unmarshal(t.out).ok
PluginReportedError(t) == Decoded(t) /\ Unmarshal(t.out).PluginErrorMessage # ""
Fails(t) == ProcessFailed(t) \/ PluginReportedError(t)

\* The warnings batch an invocation forwards, <<>> when it forwards none.
ForwardedBatch(t) ==
    IF Decoded(t) /\ ~Unmarshal(t.out).PluginWarnings.isNil
    THEN Unmarshal(t.out).PluginWarnings.items ELSE <<>>

TaskIds == 1..Len(tasks)
NumSep(s) == Cardinality({k \in 1..Len(s) : s[k] = Sep})

Aggregated == mainPc = "returned" /\ collPc = "stopped"
EncodeFailed == mainPc = "returned" /\ collPc = "notStarted"
AnyFails == \E i \in TaskIds : Fails(tasks[i])
ReturnedError == ~ret.hasReport /\ ~ret.err.isNil
ReturnedReport == ret.hasReport /\ ret.err.isNil

BagOfSeq(s) ==
    [x \in {s[k] : k \in 1..Len(s)} |-> Cardinality({k \in 1..Len(s) : s[k] = x})]

RECURSIVE ContributedBag(_)
ContributedBag(n) ==
    IF n = 0 THEN EmptyBag
    ELSE ContributedBag(n - 1) (+) BagOfSeq(ForwardedBatch(tasks[n]))

RECURSIVE ContributedCount(_)
ContributedCount(n) ==
    IF n = 0 THEN 0 ELSE ContributedCount(n - 1) + Len(ForwardedBatch(tasks[n]))

\* The failure record expected of a failing invocation i.
ExpectedRecord(i) ==
    LET name == TrimSpace(plugins[i])
        t == tasks[i]
    IN wrapPluginErr(name, LookPath(name).path,
                     IF ProcessFailed(t) THEN t.err
                     ELSE Errorf(<<Unmarshal(t.out).PluginErrorMessage>>),
                     t.out)

RECURSIVE ExpectedRecords(_)
ExpectedRecords(n) ==
    IF n = 0 THEN EmptyBag
    ELSE ExpectedRecords(n - 1)
         (+) (IF Fails(tasks[n]) THEN SetToBag({ExpectedRecord(n)}) ELSE EmptyBag)

\* ------------------------------------------------------------- claims
\* C1: when every invocation of a call succeeds, runPlugins returns the Report
\* and no error, and the final Report.Warnings has length original-count + k and
\* is, as a multiset, the original warnings plus every forwarded warning.
C1_AllSucceedMerged ==
    (Aggregated /\ ~AnyFails) =>
        /\ ReturnedReport
        /\ Len(report.Warnings) = Len(entry.Warnings) + ContributedCount(Len(tasks))
        /\ BagOfSeq(report.Warnings)
             = BagOfSeq(entry.Warnings) (+) ContributedBag(Len(tasks))

C1_Witness ==
    /\ Aggregated /\ ~AnyFails
    /\ entry.Warnings # <<>>
    /\ \E i, j \in TaskIds :
         i # j /\ Len(ForwardedBatch(tasks[i])) = 2 /\ Len(ForwardedBatch(tasks[j])) = 1

\* C2 (as claimed): runPlugins returns (nil, error) exactly when some invocation
\* process-failed or reported a plugin error, and (report, nil) otherwise.
C2_ErrorIffInvocationFails ==
    mainPc = "returned" =>
        /\ ReturnedError <=> AnyFails
        /\ ~AnyFails => ReturnedReport

\* C2 (amended): runPlugins returns (nil, error) exactly when payload
\* construction failed or some invocation process-failed or reported a plugin
\* error, and (report, nil) otherwise; it never returns both.
C2_ErrorIffEncodeOrInvocationFails ==
    mainPc = "returned" =>
        /\ ReturnedError <=> (EncodeFailed \/ AnyFails)
        /\ ReturnedReport <=> ~(EncodeFailed \/ AnyFails)
        /\ ~(ret.hasReport /\ ~ret.err.isNil)

C2_Witness ==
    /\ Aggregated /\ ReturnedError
    /\ \E i, j \in TaskIds :
         /\ ProcessFailed(tasks[i])
         /\ ~Fails(tasks[j]) /\ ForwardedBatch(tasks[j]) # <<>>

\* C3: once a call has returned the combined error, no warning contributed by
\* a succeeding plugin is left in the Report the caller passed in.
C3_FailureDiscardsWarnings ==
    (/\ Aggregated /\ ReturnedError
     /\ \A i \in TaskIds : Fails(tasks[i]) => ForwardedBatch(tasks[i]) = <<>>)
    => report.Warnings = entry.Warnings

\* C4: when the combined error is built, the failure accumulator holds exactly
\* one record per process-failed or plugin-reported-error invocation, carrying
\* its trimmed name and resolved path, none for a resolution-failed or
\* decode-failed one, and the combined error lists the records in accumulator
\* order.
C4_AccumulatorExact ==
    (mainPc \in {"decide", "returned"} /\ collPc = "stopped") =>
        /\ BagOfSeq(allPluginErrors) = ExpectedRecords(Len(tasks))
        /\ \A k \in 1..Len(sentLog) :
             sentLog[k].msg.kind = "err" => Fails(tasks[sentLog[k].from])
        /\ (mainPc = "returned" /\ allPluginErrors # <<>>) =>
             ret.err.text = AccumulatedHeader
                 \o Join([k \in 1..Len(allPluginErrors) |-> allPluginErrors[k].text],
                         "\n")

C4_Witness ==
    /\ Aggregated
    /\ Len(allPluginErrors) = 2
    /\ \E i, j \in TaskIds :
         /\ ProcessFailed(tasks[i]) /\ PluginReportedError(tasks[j])
         /\ tasks[i].name # tasks[j].name
         /\ allPluginErrors = <<ExpectedRecord(j), ExpectedRecord(i)>>

\* C5: when every configured name fails to resolve, no task sends a message,
\* the call returns the Report and no error, and Report.Warnings is what it was
\* at call entry, element for element.
C5_AllUnresolvedUnchanged ==
    (Aggregated /\ \A i \in TaskIds : ResolutionFailed(tasks[i])) =>
        /\ sentLog = <<>>
        /\ ReturnedReport
        /\ report.Warnings = entry.Warnings

C5_Witness ==
    /\ Aggregated
    /\ Len(tasks) >= 2
    /\ entry.Warnings # <<>>
    /\ \A i \in TaskIds : ResolutionFailed(tasks[i])

\* ------------------------------------------------------------- message history
LogFrom(S) == SelectSeq(sentLog, LAMBDA e : e.from \in S)
MsgsOf(log) == [k \in 1..Len(log) |-> log[k].msg]

RECURSIVE LoggedWarnings(_)
LoggedWarnings(log) ==
    IF log = <<>> THEN <<>>
    ELSE (IF Head(log).msg.kind = "warnings" THEN Head(log).msg.warnings ELSE <<>>)
         \o LoggedWarnings(Tail(log))

RECURSIVE LoggedErrs(_)
LoggedErrs(log) ==
    IF log = <<>> THEN <<>>
    ELSE (IF Head(log).msg.kind = "err" THEN <<Head(log).msg.err>> ELSE <<>>)
         \o LoggedErrs(Tail(log))

\* The messages the protocol expects of invocation i, by its classification.
ExpectedMsgs(i) ==
    LET t == tasks[i]
    IN IF ProcessFailed(t) THEN <<ErrMsg(ExpectedRecord(i))>>
       ELSE IF Decoded(t)
       THEN (IF Unmarshal(t.out).PluginWarnings.isNil THEN <<>>
             ELSE <<WarningsMsg(Unmarshal(t.out).PluginWarnings.items)>>)
            \o (IF PluginReportedError(t) THEN <<ErrMsg(ExpectedRecord(i))>> ELSE <<>>)
       ELSE <<>>

\* The i-th comma-separated entry of the list, found by counting separators.
SepAt(s, n) ==
    IF n = 0 THEN 0
    ELSE IF n > NumSep(s) THEN Len(s) + 1
    ELSE CHOOSE k \in 1..Len(s) :
           s[k] = Sep /\ Cardinality({j \in 1..(k - 1) : s[j] = Sep}) = n - 1
ListEntry(s, i) == SubSeq(s, SepAt(s, i - 1) + 1, SepAt(s, i) - 1)

AnyHung == \E i \in TaskIds : tasks[i].pc = "hung"
AllDone == \A i \in TaskIds : tasks[i].pc = "done"

\* C6: a decode-failed invocation forwards nothing, and the final accumulators
\* are exactly what the other invocations' messages, applied in delivery order,
\* make them: the outcome of the call without the decode-failed plugin.
C6_DecodeFailureContributesNothing ==
    LET others == {i \in TaskIds : ~DecodeFailed(tasks[i])}
    IN /\ \A k \in 1..Len(sentLog) : sentLog[k].from \in others
       /\ Aggregated =>
            /\ \A i \in others : MsgsOf(LogFrom({i})) = ExpectedMsgs(i)
            /\ report.Warnings = entry.Warnings \o LoggedWarnings(LogFrom(others))
            /\ allPluginErrors = LoggedErrs(LogFrom(others))

C6_Witness ==
    /\ Aggregated
    /\ \E i, j \in TaskIds :
         /\ DecodeFailed(tasks[i])
         /\ PluginReportedError(tasks[j]) /\ ForwardedBatch(tasks[j]) # <<>>
         /\ Len(sentLog) = 2

\* C7: one invocation per comma-separated entry of the list, duplicates
\* included: every entry gets a task of its own, a resolvable name is executed
\* once per entry, and each task's messages are delivered and applied.
C7_OneTaskPerEntry ==
    /\ \A i \in TaskIds :
         tasks[i].name \in {ListEntry(pluginList, i), TrimSpace(ListEntry(pluginList, i))}
    /\ (mainPc \in {"wait", "stop", "decide"} \/ Aggregated) =>
         Len(tasks) = NumSep(pluginList) + 1
    /\ Aggregated =>
         /\ \A i \in TaskIds :
              /\ tasks[i].pc = "done"
              /\ TrimSpace(ListEntry(pluginList, i)) \in installed => tasks[i].exited
              /\ MsgsOf(LogFrom({i})) = ExpectedMsgs(i)
         /\ Len(report.Warnings) = Len(entry.Warnings) + Len(LoggedWarnings(sentLog))
         /\ Len(allPluginErrors) = Len(LoggedErrs(sentLog))

C7_Witness ==
    /\ Aggregated
    /\ \E i, j \in TaskIds :
         /\ i # j /\ tasks[i].name = tasks[j].name
         /\ ForwardedBatch(tasks[i]) # <<>> /\ ProcessFailed(tasks[j])
         /\ Len(sentLog) = 2

\* C8: the payload is the encoding of the Report as it was at call entry and
\* never changes, and what each plugin process has read is the payload from
\* offset zero up to its own cursor, whatever the other tasks have read or the
\* collector has merged meanwhile.
C8_SameInputForEveryTask ==
    /\ (mainPc # "encode" /\ ~EncodeFailed) =>
         inputData = Encode(Data(entry.Current, entry.Updated,
                                 Slice(entry.Warnings), Slice(<<>>), ""))
    /\ \A i \in TaskIds :
         tasks[i].pc \in {"running", "hung"} =>
            /\ Len(tasks[i].stdin) <= Len(inputData)
            /\ tasks[i].stdin = SubSeq(inputData, 1, Len(tasks[i].stdin))
            /\ readers[tasks[i].reader] = Len(inputData) => tasks[i].stdin = inputData

C8_Witness ==
    /\ report.Warnings # entry.Warnings
    /\ \E i, j \in TaskIds :
         /\ i # j
         /\ tasks[j].pc = "done" /\ ForwardedBatch(tasks[j]) # <<>>
         /\ tasks[i].pc = "running" /\ tasks[i].stdin = inputData

\* C9: unless a plugin process never exits, runPlugins eventually returns, with
\* the collector stopped (or never started) and every task returned.
C9_EventuallyReturns ==
    <>(\/ AnyHung
       \/ /\ mainPc = "returned"
          /\ collPc \in {"stopped", "notStarted"}
          /\ AllDone)

C9_Witness ==
    /\ Aggregated /\ AllDone
    /\ \E i, j \in TaskIds : i # j /\ Len(LogFrom({i})) = 2 /\ Len(LogFrom({j})) = 1

\* C10: while a plugin process that never exits exists, runPlugins has not
\* returned and has not passed the barrier, whatever the other invocations did.
C10_HungPluginBlocksCall ==
    AnyHung =>
        /\ mainPc \in {"dispatch", "wait"}
        /\ collPc # "stopped"
        /\ ret = [hasReport |-> FALSE, err |-> NilErr]

C10_Witness ==
    /\ mainPc = "wait"
    /\ collPc = "select"
    /\ \E i, j \in TaskIds :
         /\ tasks[i].pc = "hung"
         /\ tasks[j].pc = "done" /\ LogFrom({j}) # <<>>
         /\ \A k \in TaskIds \ {i} : tasks[k].pc = "done"

\* C11: when payload construction fails, runPlugins returns that error at once
\* with no report; no task was dispatched, no collector started, and the Report
\* is as it was at call entry.
C11_EncodeFailureAborts ==
    ret.err = EncodeErr =>
        /\ mainPc = "returned"
        /\ ~ret.hasReport
        /\ tasks = <<>> /\ plugins = <<>> /\ wg = 0 /\ readers = <<>>
        /\ collPc = "notStarted"
        /\ sentLog = <<>> /\ allPluginErrors = <<>>
        /\ report = entry

C11_Witness ==
    /\ mainPc = "returned"
    /\ ret.err = EncodeErr
    /\ entry.Warnings # <<>>
    /\ Len(PluginEntries(pluginList)) = 2
    /\ \A k \in 1..2 : TrimSpace(PluginEntries(pluginList)[k]) \in installed

\* C12: every step that changes Report.Warnings or the failure accumulator is a
\* step of the collector alone, taken from one of its append positions: the
\* tasks and runPlugins itself stay where they are in that step.
C12_OnlyCollectorWrites ==
    [][(report # report' \/ allPluginErrors # allPluginErrors') =>
          /\ collPc \in {"appendErr", "appendWarnings"}
          /\ tasks' = tasks /\ wg' = wg
          /\ mainPc' = mainPc /\ ret' = ret
          /\ sentLog' = sentLog]_vars

C12_Witness ==
    /\ collPc = "appendWarnings" /\ collIdx = 2
    /\ report.Warnings # entry.Warnings
    /\ allPluginErrors # <<>>
    /\ \E i \in TaskIds : tasks[i].pc = "send"

\* The message delivered last is still being appended by the collector.
InFlight ==
    \/ collPc = "appendErr"
    \/ collPc = "appendWarnings" /\ collIdx <= Len(collBatch)
LastSender == sentLog[Len(sentLog)].from

\* runPlugins is where it reads the accumulators.
ReadPoint == mainPc = "decide" \/ (mainPc = "returned" /\ ret.err # EncodeErr)

\* C13 (as claimed): a task has not finished while a message it sent is still
\* to be appended, and wg.Wait has not returned while a sent message is not
\* yet applied.
C13_DoneOnlyAfterApplied ==
    /\ \A i \in TaskIds : (tasks[i].pc = "done" /\ InFlight) => LastSender # i
    /\ mainPc = "stop" => ~InFlight

\* C13 (amended): a task has finished only after each message it had to send
\* was received by the collector, and runPlugins is past the stop signal only
\* when every received message has been appended.
C13_DoneOnlyAfterReceived ==
    /\ \A i \in TaskIds :
         tasks[i].pc = "done" =>
            /\ tasks[i].pending = <<>>
            /\ MsgsOf(LogFrom({i})) = ExpectedMsgs(i)
    /\ wg = Cardinality({i \in TaskIds : tasks[i].pc # "done"})
    /\ ReadPoint =>
         /\ ~InFlight
         /\ report.Warnings = entry.Warnings \o LoggedWarnings(sentLog)
         /\ allPluginErrors = LoggedErrs(sentLog)

C13_Witness ==
    /\ mainPc = "stop"
    /\ wg = 0
    /\ InFlight
    /\ tasks[LastSender].pc = "done"
    /\ collPc = "appendWarnings" /\ collIdx = 1 /\ Len(collBatch) = 2

\* C14: runPlugins reads the accumulators only with the collector stopped, every
\* task returned and every delivered message appended in full, and once the
\* collector has stopped neither accumulator changes again.
C14_ReadAfterStop ==
    /\ [](ReadPoint =>
            /\ collPc = "stopped"
            /\ collErr = NilErr /\ collBatch = <<>>
            /\ AllDone
            /\ \A i \in TaskIds : tasks[i].pending = <<>>
            /\ Len(report.Warnings)
                 = Len(entry.Warnings) + Len(LoggedWarnings(sentLog))
            /\ Len(allPluginErrors) = Len(LoggedErrs(sentLog)))
    /\ [][collPc = "stopped" =>
            /\ collPc' = "stopped"
            /\ report' = report
            /\ allPluginErrors' = allPluginErrors]_vars

C14_Witness ==
    /\ mainPc = "decide"
    /\ Len(sentLog) = 3
    /\ report.Warnings # entry.Warnings
    /\ allPluginErrors # <<>>

\* Every message of task i, delivered or still to be sent, in order.
AllMsgs(i) == MsgsOf(LogFrom({i})) \o tasks[i].pending
OfKind(msgs, kind) == SelectSeq(msgs, LAMBDA m : m.kind = kind)
Contains(s, sub) ==
    \E o \in 0..Len(s) : o + Len(sub) <= Len(s) /\ SubSeq(s, o + 1, o + Len(sub)) = sub

\* C15: the stop signal is delivered once, from runPlugins past the barrier, and
\* only with every entry dispatched and every task returned: the WaitGroup
\* counter is raised in the step that starts a task and always counts the tasks
\* that have not returned, and the collector is never stopped while a task has
\* a message left to send.
C15_StopOnceAfterAllTasks ==
    /\ [](wg = Cardinality({i \in TaskIds : tasks[i].pc # "done"}))
    /\ []((mainPc \in {"stop", "decide"} \/ Aggregated) =>
            AllDone /\ Len(tasks) = Len(plugins))
    /\ [](collPc = "stopped" => \A i \in TaskIds : tasks[i].pending = <<>>)
    /\ [][Len(tasks') # Len(tasks) =>
            /\ Len(tasks') = Len(tasks) + 1
            /\ wg' = wg + 1
            /\ tasks'[Len(tasks')].pc = "start"]_vars
    /\ [][(collPc # "stopped" /\ collPc' = "stopped") =>
            (mainPc = "stop" /\ mainPc' = "decide")]_vars
    /\ [][(mainPc \in {"decide", "returned"}) =>
            (mainPc' \in {"decide", "returned"})]_vars

C15_Witness ==
    /\ mainPc = "decide" /\ collPc = "stopped"
    /\ Len(tasks) = 3
    /\ sentLog # <<>>

\* C16: a process-failed invocation sends exactly one message, its failure
\* record, and never a warnings batch, whatever its output holds.
C16_ProcessFailureSendsOneRecord ==
    /\ \A i \in TaskIds :
         ProcessFailed(tasks[i]) => AllMsgs(i) = <<ErrMsg(ExpectedRecord(i))>>
    /\ (Aggregated /\ \A i \in TaskIds : tasks[i].exited => ProcessFailed(tasks[i]))
         => report.Warnings = entry.Warnings

C16_Witness ==
    /\ Aggregated
    /\ report.Warnings = entry.Warnings
    /\ \E i \in TaskIds :
         /\ ProcessFailed(tasks[i])
         /\ Unmarshal(tasks[i].out).ok
         /\ Unmarshal(tasks[i].out).PluginWarnings.items # <<>>

\* C17 (as claimed): a warnings message is forwarded only for a non-empty
\* PluginWarnings; an invocation that decoded an empty PluginWarnings and no
\* error message sends nothing.
C17_EmptyWarningsSendNothing ==
    /\ \A k \in 1..Len(sentLog) :
         sentLog[k].msg.kind = "warnings" => sentLog[k].msg.warnings # <<>>
    /\ \A i \in TaskIds :
         (/\ Decoded(tasks[i])
          /\ Unmarshal(tasks[i].out).PluginWarnings.items = <<>>
          /\ Unmarshal(tasks[i].out).PluginErrorMessage = "") => AllMsgs(i) = <<>>

\* C17 (amended): a warnings message is forwarded exactly when the decoded
\* PluginWarnings is not nil; an invocation that decoded no PluginWarnings and
\* no error message sends nothing, one that decoded a present but empty
\* PluginWarnings sends one empty batch.
C17_NilWarningsSendNothing ==
    \A i \in TaskIds :
        Decoded(tasks[i]) =>
            LET d == Unmarshal(tasks[i].out)
            IN /\ OfKind(AllMsgs(i), "warnings")
                    = IF d.PluginWarnings.isNil THEN <<>>
                      ELSE <<WarningsMsg(d.PluginWarnings.items)>>
               /\ (d.PluginWarnings.isNil /\ d.PluginErrorMessage = "")
                    => AllMsgs(i) = <<>>

C17_Witness ==
    /\ Aggregated /\ ReturnedReport
    /\ report.Warnings = entry.Warnings
    /\ \E i, j \in TaskIds :
         /\ Decoded(tasks[i]) /\ Unmarshal(tasks[i].out) = [ok |-> TRUE,
               PluginWarnings |-> Slice(<<>>), PluginErrorMessage |-> ""]
         /\ MsgsOf(LogFrom({i})) = <<WarningsMsg(<<>>)>>
         /\ Decoded(tasks[j]) /\ Unmarshal(tasks[j].out) = [ok |-> TRUE,
               PluginWarnings |-> NilSlice, PluginErrorMessage |-> ""]
         /\ LogFrom({j}) = <<>>

\* C18: an invocation that decoded both PluginWarnings and an error message
\* sends the warnings batch and then the failure record; no task sends more
\* than one batch or more than one record; and the call then returns the
\* combined error with that record in it.
C18_WarningsThenError ==
    /\ \A i \in TaskIds :
         /\ Len(OfKind(AllMsgs(i), "warnings")) <= 1
         /\ Len(OfKind(AllMsgs(i), "err")) <= 1
    /\ \A i \in TaskIds :
         (PluginReportedError(tasks[i]) /\ ~Unmarshal(tasks[i].out).PluginWarnings.isNil)
         => /\ AllMsgs(i) = <<WarningsMsg(Unmarshal(tasks[i].out).PluginWarnings.items),
                              ErrMsg(ExpectedRecord(i))>>
            /\ Aggregated =>
                 /\ ReturnedError
                 /\ \E k \in 1..Len(allPluginErrors) :
                      allPluginErrors[k] = ExpectedRecord(i)
                 /\ Contains(ret.err.text, ExpectedRecord(i).text)

C18_Witness ==
    /\ Aggregated
    /\ \E i, j \in TaskIds :
         /\ PluginReportedError(tasks[i]) /\ Len(ForwardedBatch(tasks[i])) = 2
         /\ ~Fails(tasks[j]) /\ Len(ForwardedBatch(tasks[j])) = 1
         /\ sentLog[1].from = i /\ sentLog[2].from = j /\ sentLog[3].from = i

\* The batches delivered so far, in delivery order.
LoggedBatches == [k \in 1..Len(OfKind(MsgsOf(sentLog), "warnings")) |->
                    OfKind(MsgsOf(sentLog), "warnings")[k].warnings]

RECURSIVE Flatten(_)
Flatten(ss) == IF ss = <<>> THEN <<>> ELSE Head(ss) \o Flatten(Tail(ss))

\* C19: a batch is appended whole and in order before the collector receives
\* anything else: Report.Warnings is always the entry warnings followed by the
\* delivered batches one after the other, in delivery order, the batch being
\* appended present up to the loop index, and no message is delivered while a
\* batch is being appended.
C19_BatchesContiguous ==
    /\ [](LET done == IF collPc = "appendWarnings"
                      THEN SubSeq(LoggedBatches, 1, Len(LoggedBatches) - 1)
                      ELSE LoggedBatches
              part == IF collPc = "appendWarnings"
                      THEN SubSeq(collBatch, 1, collIdx - 1) ELSE <<>>
          IN /\ report.Warnings = entry.Warnings \o Flatten(done) \o part
             /\ collPc = "appendWarnings" =>
                  collBatch = LoggedBatches[Len(LoggedBatches)])
    /\ [][collPc = "appendWarnings" => sentLog' = sentLog]_vars

C19_Witness ==
    /\ Aggregated
    /\ Len(LoggedBatches) = 2
    /\ sentLog[1].from # sentLog[Len(sentLog)].from
    /\ Len(LoggedBatches[1]) = 2 /\ Len(LoggedBatches[2]) = 1
    /\ Len(report.Warnings) = Len(entry.Warnings) + 3

IsPrefix(s, t) == Len(s) <= Len(t) /\ s = SubSeq(t, 1, Len(s))

\* C20: Report.Warnings only grows at its end, so the warnings of call entry
\* stay its prefix, and Report.Current and Report.Updated keep their values.
C20_WarningsAppendOnly ==
    /\ [](/\ IsPrefix(entry.Warnings, report.Warnings)
          /\ report.Current = entry.Current
          /\ report.Updated = entry.Updated)
    /\ [][/\ IsPrefix(report.Warnings, report.Warnings')
          /\ Len(report.Warnings') <= Len(report.Warnings) + 1
          /\ report.Current' = report.Current
          /\ report.Updated' = report.Updated]_vars

C20_Witness ==
    /\ entry.Warnings # <<>>
    /\ Len(report.Warnings) = Len(entry.Warnings) + 2 * MaxBatch
    /\ mainPc = "returned"

====
